---- MODULE Spec2Model ----
(***************************************************************************)
(* Model of layers/util/icosahedron_functions.py: the gnomonic kernel      *)
(* projector, the kernel/resample map builders and the icosphere count     *)
(* formulas.                                                               *)
(*                                                                         *)
(* Numeric representation.  Angles (longitude, latitude, nu) live on a     *)
(* grid of PI/36 radians (5 degrees), so PI is the integer 36.  Every      *)
(* other real (tangent-plane offsets, resolutions, sines and cosines) is   *)
(* a fixed-point integer with Scale = 1.0.  The trigonometric functions    *)
(* are computed from a sine table and round to the grid; the additions,    *)
(* the modulus and the comparisons of the code are exact.                  *)
(***************************************************************************)
EXTENDS Integers, Sequences, FiniteSets, TLC

\* ---------------------------------------------------------------- bounds
MaxK == 3          \* largest kernel dimension tried
MinK == 0 - 1      \* smallest kernel dimension tried (malformed input)
MaxCenters == 2    \* largest batch of centers
MaxOrder == 4      \* largest icosphere order
MaxElems == 2      \* largest number of target elements of a mesh query

\* ------------------------------------------------------- numeric domain
PI == 36           \* math.pi on the angle grid
Scale == 100       \* fixed-point value of the real 1.0
WSum == 2          \* fixed-point value of the barycentric weight 1.0
H == PI \div 2
NaN == 4 * PI      \* marker for the float NaN in a latitude slot

SinTab ==
  <<0, 9, 17, 26, 34, 42, 50, 57, 64, 71,
    77, 82, 87, 91, 94, 97, 98, 100, 100>>

Abs(v) == IF v < 0 THEN 0 - v ELSE v

\* sine of a grid angle, any integer
Sin(a) ==
  LET r == a % (2 * PI)
  IN  IF r <= H THEN SinTab[r + 1]
      ELSE IF r <= PI THEN SinTab[PI - r + 1]
      ELSE IF r <= PI + H THEN 0 - SinTab[r - PI + 1]
      ELSE 0 - SinTab[2 * PI - r + 1]

Cos(a) == Sin(a + H)

Max(a, b) == IF a >= b THEN a ELSE b

\* (x**2 + y**2).sqrt(), rounded down
Rho(xx, yy) ==
  CHOOSE r \in Max(Abs(xx), Abs(yy))..(Abs(xx) + Abs(yy)) :
    r * r <= xx * xx + yy * yy /\ (r + 1) * (r + 1) > xx * xx + yy * yy

\* arctangent of num/den for num, den >= 0, rounded down to the grid:
\* the largest grid angle in 0..H whose tangent is at most num/den
AtanRatio(num, den) ==
  CHOOSE a \in 0..H :
    /\ a = 0 \/ Sin(a) * den <= num * Cos(a)
    /\ a = H \/ Sin(a + 1) * den > num * Cos(a + 1)

Atan(rho) == AtanRatio(rho, Scale)

\* atan2(yy, xx), range [-PI, PI], atan2(0, 0) = 0
Atan2(yy, xx) ==
  IF yy = 0 THEN (IF xx >= 0 THEN 0 ELSE PI)
  ELSE IF xx >= 0
       THEN (IF yy > 0 THEN AtanRatio(yy, xx) ELSE 0 - AtanRatio(0 - yy, xx))
       ELSE (IF yy > 0 THEN PI - AtanRatio(yy, 0 - xx)
                       ELSE AtanRatio(0 - yy, 0 - xx) - PI)

\* asin of v / Scale^2, rounded down to the grid (the largest grid angle in
\* -H..H whose sine is at most v / Scale^2); NaN outside [-1, 1]
Asin(v) ==
  IF Abs(v) > Scale * Scale THEN NaN
  ELSE CHOOSE a \in (0 - H)..H :
         /\ a = 0 - H \/ Sin(a) * Scale <= v
         /\ a = H \/ Sin(a + 1) * Scale > v


\* ------------------------------------------------------ input domains
KRange == MinK..MaxK
ResSet == {20, 40}
Centers == {<<0, 0>>, <<PI, 0>>, <<PI - 2, 6>>}
CenterBatches == UNION {[1..n -> Centers] : n \in 1..MaxCenters}
Sources == {"face", "vertex", "invalid"}
Orders == 0..MaxOrder
MeshOrders == 0..1
ImageShapes == {<<18, 36>>}

\* A mesh snapshot as the builders read it: the vertices and the face
\* barycenters already converted to (lon, lat), and the angular resolution.
\* The mesh with more vertices has the finer resolution.
Icospheres ==
  {[vertices |-> <<<<PI, 6>>>>, barycenters |-> <<<<0, 0>>>>,
    resolution |-> 40],
   [vertices |-> <<<<0, 0>>, <<PI, 6>>>>, barycenters |-> <<<<PI, 0>>>>,
    resolution |-> 20]}

\* What the mesh query may return for one sample: the vertex indices of a
\* face, in the face's order, and three weights that sum to 1.0 (= WSum).
FaceTriples == {<<0, 1, 2>>, <<2, 1, 3>>}
WeightTriples ==
  {w \in [1..3 -> 0..WSum] : w[1] + w[2] + w[3] = WSum}

VARIABLES
  op,               \* the function called, "none" before the call
  kh, kw,           \* kernel dimensions of the call
  res_lat, res_lon, \* kernel resolutions of the call
  spherical_coords, \* the batch of centers, <<lon, lat>> each
  x, y,             \* gnomonic_kernel's planar offsets, one per tap
  source,           \* the face/vertex selector of the call
  nearest,          \* the nearest flag of the call
  order,            \* the icosphere order of the call
  meshV, meshW,     \* vertex indices and weights the mesh query returned
  outcome,          \* how the call ended
  ret               \* the value returned, <<>> when nothing is returned

vars == <<op, kh, kw, res_lat, res_lon, spherical_coords, x, y, source,
          nearest, order, meshV, meshW, outcome, ret>>

\* ------------------------------------------------------ gnomonic_kernel
Zeros(n) == [t \in 1..n |-> 0]

RECURSIVE InnerLoop(_, _, _, _, _, _, _)
InnerLoop(g, i, j, h, w, rlat, rlon) ==
  IF j >= w THEN g
  ELSE LET cur_i == i - (h \div 2)
           cur_j == j - (w \div 2)
       IN  InnerLoop([x |-> [g.x EXCEPT ![i * w + j + 1] = cur_j * rlon],
                      y |-> [g.y EXCEPT ![i * w + j + 1] = cur_i * rlat]],
                     i, j + 1, h, w, rlat, rlon)

RECURSIVE OuterLoop(_, _, _, _, _, _)
OuterLoop(g, i, h, w, rlat, rlon) ==
  IF i >= h THEN g
  ELSE OuterLoop(InnerLoop(g, i, 0, h, w, rlat, rlon), i + 1, h, w, rlat, rlon)

\* CenterEven without the half-resolution shift
CenterEvenNoShift(g, h, w, rlat, rlon) == g

\* "Center the kernel if dimensions are even"
CenterEven(g, h, w, rlat, rlon) ==
  [x |-> [t \in DOMAIN g.x |->
            IF w % 2 = 0 THEN g.x[t] + rlon \div 2 ELSE g.x[t]],
   y |-> [t \in DOMAIN g.y |->
            IF h % 2 = 0 THEN g.y[t] + rlat \div 2 ELSE g.y[t]]]

KernelOffsets(h, w, rlat, rlon) ==
  CenterEven(OuterLoop([x |-> Zeros(h * w), y |-> Zeros(h * w)],
                       0, h, w, rlat, rlon),
             h, w, rlat, rlon)

\* out_lat of the inverse gnomonic formula; 0/0 is NaN
FormulaLat(lat, xx, yy) ==
  LET rho == Rho(xx, yy)
      nu == Atan(rho)
  IN  IF rho = 0 THEN NaN
      ELSE Asin(Cos(nu) * Sin(lat) + (yy * Sin(nu) * Cos(lat)) \div rho)

\* out_lon of the inverse gnomonic formula, before the wrap
FormulaLon(lon, lat, xx, yy) ==
  LET rho == Rho(xx, yy)
      nu == Atan(rho)
  IN  lon + Atan2(xx * Sin(nu) * Scale,
                  rho * Cos(lat) * Cos(nu) - yy * Sin(lat) * Sin(nu))

\* the tap the override assigns, as Python computes it
CenterTap(h, w) == (h \div 2) * w + w \div 2

\* Python/torch index normalisation of idx into a dimension of size n
IndexOK(idx, n) == 0 - n <= idx /\ idx < n
NormIndex(idx, n) == IF idx < 0 THEN idx + n ELSE idx

\* "handle the 0 case": which taps have their latitude / longitude replaced
LatOverridden(t, h, w) ==
  h % 2 = 1 /\ t = NormIndex(CenterTap(h, w), h * w) + 1
LonOverridden(t, h, w) ==
  w % 2 = 1 /\ t = NormIndex(CenterTap(h, w), h * w) + 1

\* a wrap into (-PI, PI] instead of [-PI, PI)
WrapClosedAtPi(out_lon) == PI - ((PI - out_lon) % (2 * PI))

\* "Compensate for longitudinal wrap around"
Wrap(out_lon) == ((out_lon + PI) % (2 * PI)) - PI

NoResult == [outcome |-> "none", x |-> <<>>, y |-> <<>>, ret |-> <<>>]

gnomonic_kernel(coords, h, w, rlat, rlon) ==
  IF h * w < 0
  THEN [NoResult EXCEPT !.outcome = "RuntimeError"]
  ELSE
    LET g == KernelOffsets(h, w, rlat, rlon)
        n == h * w
        out_lat(s, t) ==
          IF LatOverridden(t, h, w) THEN coords[s][2]
          ELSE FormulaLat(coords[s][2], g.x[t], g.y[t])
        out_lon(s, t) ==
          IF LonOverridden(t, h, w) THEN coords[s][1]
          ELSE FormulaLon(coords[s][1], coords[s][2], g.x[t], g.y[t])
    IN  IF (h % 2 = 1 \/ w % 2 = 1) /\ ~IndexOK(CenterTap(h, w), n)
        THEN [outcome |-> "IndexError", x |-> g.x, y |-> g.y, ret |-> <<>>]
        ELSE [outcome |-> "returned", x |-> g.x, y |-> g.y,
              ret |-> [s \in 1..Len(coords) |->
                        [t \in 1..n |->
                          <<Wrap(out_lon(s, t)), out_lat(s, t)>>]]]

\* ------------------------------------------------------ count formulas
RECURSIVE Pow(_, _)
Pow(b, e) == IF e <= 0 THEN 1 ELSE b * Pow(b, e - 1)

RECURSIVE VertexLoop(_, _, _)
VertexLoop(v, i, n) ==
  IF i >= n THEN v ELSE VertexLoop(v - 6 * Pow(4, i), i + 1, n)

\* the subtraction loop started at 1 instead of 0
compute_num_vertices_from_one(n) == VertexLoop(12 * Pow(4, n), 1, n)

compute_num_vertices(n) == VertexLoop(12 * Pow(4, n), 0, n)

compute_num_faces(n) == 20 * Pow(4, n)

\* ------------------------------------------ gnomonic_kernel_from_sphere
Exit == [NoResult EXCEPT !.outcome = "exit"]

\* the centers the selector picks; <<>> for an unknown selector
SourceCoords(ico, src) ==
  IF src = "face" THEN ico.barycenters
  ELSE IF src = "vertex" THEN ico.vertices
  ELSE <<>>

gnomonic_kernel_from_sphere(ico, h, w, rlat, rlon, src) ==
  IF src \notin {"face", "vertex"} THEN Exit
  ELSE gnomonic_kernel(SourceCoords(ico, src), h, w, rlat, rlon)

\* ------------------------------------------------- mesh-relative builders
RECURSIVE Float32Step(_, _)
Float32Step(n, step) ==
  IF n < 16777216 * step THEN step ELSE Float32Step(n, 2 * step)

\* tensor.float() of an integer: exact up to 2^24, then a multiple of the ulp
Float32(n) ==
  LET step == Float32Step(Abs(n), 1)
  IN  IF n >= 0 THEN ((n + step \div 2) \div step) * step
      ELSE 0 - (((0 - n) + step \div 2) \div step) * step

\* the index duplicated into the second slot instead of a zero
PadDuplicated(V) == [e \in DOMAIN V |-> [c \in 1..3 |-> <<V[e][c], V[e][c]>>]]

\* torch.stack((V, torch.zeros_like(V)), -1)
Pad(V) == [e \in DOMAIN V |-> [c \in 1..3 |-> <<V[e][c], 0>>]]

VFloat(V) ==
  [e \in DOMAIN V |-> [c \in 1..3 |-> <<Float32(V[e][c][1]), Float32(V[e][c][2])>>]]

Max3(w) == Max(w[1], Max(w[2], w[3]))

\* a collapse that selects only the first maximal weight
CollapseFirstMax(W) ==
  [e \in DOMAIN W |->
    [c \in 1..3 |->
      IF W[e][c] = Max3(W[e]) /\ \A d \in 1..(c - 1) : W[e][d] # Max3(W[e])
      THEN WSum ELSE 0]]

\* (W.max(-1, keepdim=True)[0] == W).float(): TRUE becomes 1.0
Collapse(W) ==
  [e \in DOMAIN W |-> [c \in 1..3 |-> IF W[e][c] = Max3(W[e]) THEN WSum ELSE 0]]

\* the collapse applied whatever the nearest flag says
SamplesWeightsAlwaysCollapsed(W, near) == Collapse(W)

\* the weights sphere_to_samples_resample_map returns
SamplesWeights(W, near) == IF near THEN Collapse(W) ELSE W

\* the weights the other three builders return
PlainWeights(W) == W

Returned(v) == [outcome |-> "returned", ret |-> v]

vertex_to_vertex_kernel_map(V, W) ==
  Returned([V |-> VFloat(Pad(V)), W |-> PlainWeights(W)])

sphere_to_image_resample_map(V, W) ==
  Returned([V |-> VFloat(Pad(V)), W |-> PlainWeights(W)])

sphere_to_cube_resample_map(V, W) ==
  Returned([V |-> VFloat(Pad(V)), W |-> PlainWeights(W)])

sphere_to_samples_resample_map(V, W, near) ==
  Returned([V |-> VFloat(Pad(V)), W |-> SamplesWeights(W, near)])

\* --------------------------------- equirectangular_to_sphere_resample_map
\* pixel location of a (lon, lat) sample in an image of shape <<rows, cols>>
SphericalToImage(c, shape) ==
  <<((c[1] + PI) * shape[2]) \div (2 * PI), ((H - c[2]) * shape[1]) \div PI>>

equirectangular_to_sphere_resample_map(shape, ico, src) ==
  IF src \notin {"face", "vertex"} THEN Exit
  ELSE LET samples == SourceCoords(ico, src)
       IN  [NoResult EXCEPT
              !.outcome = "returned",
              !.ret = [s \in DOMAIN samples |-> SphericalToImage(samples[s], shape)]]

\* ----------------------------------------------------------- actions
Init ==
  /\ op = "none"
  /\ kh = 0 /\ kw = 0 /\ res_lat = 0 /\ res_lon = 0
  /\ spherical_coords = <<>>
  /\ x = <<>> /\ y = <<>>
  /\ source = "none"
  /\ nearest = FALSE
  /\ order = 0
  /\ meshV = <<>> /\ meshW = <<>>
  /\ outcome = "none"
  /\ ret = <<>>

CallGnomonicKernel ==
  /\ op = "none"
  /\ \E coords \in CenterBatches, h \in KRange, w \in KRange,
     rlat \in ResSet, rlon \in ResSet :
    LET r == gnomonic_kernel(coords, h, w, rlat, rlon)
    IN  /\ op' = "gnomonic_kernel"
        /\ kh' = h /\ kw' = w /\ res_lat' = rlat /\ res_lon' = rlon
        /\ spherical_coords' = coords
        /\ x' = r.x /\ y' = r.y
        /\ outcome' = r.outcome
        /\ ret' = r.ret
        /\ UNCHANGED <<source, nearest, order, meshV, meshW>>

CallGnomonicKernelFromSphere ==
  /\ op = "none"
  /\ \E ico \in Icospheres, h \in KRange, w \in KRange,
     rlat \in ResSet, rlon \in ResSet, src \in Sources :
    LET r == gnomonic_kernel_from_sphere(ico, h, w, rlat, rlon, src)
    IN  /\ op' = "gnomonic_kernel_from_sphere"
        /\ kh' = h /\ kw' = w /\ res_lat' = rlat /\ res_lon' = rlon
        /\ spherical_coords' = SourceCoords(ico, src)
        /\ source' = src
        /\ x' = r.x /\ y' = r.y
        /\ outcome' = r.outcome
        /\ ret' = r.ret
        /\ UNCHANGED <<nearest, order, meshV, meshW>>

CallVertexToVertexKernelMap ==
  /\ op = "none"
  /\ \E ico \in Icospheres, h \in KRange, w \in KRange,
     o \in MeshOrders, near \in BOOLEAN :
    LET k == gnomonic_kernel_from_sphere(ico, h, w, ico.resolution,
                                         ico.resolution, "vertex")
    IN  /\ op' = "vertex_to_vertex_kernel_map"
        /\ kh' = h /\ kw' = w
        /\ res_lat' = ico.resolution /\ res_lon' = ico.resolution
        /\ spherical_coords' = ico.vertices
        /\ source' = "vertex"
        /\ nearest' = near /\ order' = o
        /\ x' = k.x /\ y' = k.y
        /\ IF k.outcome = "returned"
           THEN /\ Len(k.ret) * h * w <= MaxElems
                /\ \E V \in [1..(Len(k.ret) * h * w) -> FaceTriples],
                      W \in [1..(Len(k.ret) * h * w) -> WeightTriples] :
                     LET r == vertex_to_vertex_kernel_map(V, W)
                     IN  /\ meshV' = V /\ meshW' = W
                         /\ outcome' = r.outcome /\ ret' = r.ret
           ELSE /\ meshV' = <<>> /\ meshW' = <<>>
                /\ outcome' = k.outcome /\ ret' = <<>>

CallSphereToImageResampleMap ==
  /\ op = "none"
  /\ \E n \in 1..MaxElems, o \in MeshOrders, near \in BOOLEAN :
    \E V \in [1..n -> FaceTriples], W \in [1..n -> WeightTriples] :
      LET r == sphere_to_image_resample_map(V, W)
      IN  /\ op' = "sphere_to_image_resample_map"
          /\ nearest' = near /\ order' = o
          /\ meshV' = V /\ meshW' = W
          /\ outcome' = r.outcome /\ ret' = r.ret
          /\ UNCHANGED <<kh, kw, res_lat, res_lon, spherical_coords, x, y,
                         source>>

CallSphereToCubeResampleMap ==
  /\ op = "none"
  /\ \E n \in 1..MaxElems, o \in MeshOrders, near \in BOOLEAN :
    \E V \in [1..n -> FaceTriples], W \in [1..n -> WeightTriples] :
      LET r == sphere_to_cube_resample_map(V, W)
      IN  /\ op' = "sphere_to_cube_resample_map"
          /\ nearest' = near /\ order' = o
          /\ meshV' = V /\ meshW' = W
          /\ outcome' = r.outcome /\ ret' = r.ret
          /\ UNCHANGED <<kh, kw, res_lat, res_lon, spherical_coords, x, y,
                         source>>

CallSphereToSamplesResampleMap ==
  /\ op = "none"
  /\ \E n \in 1..MaxElems, o \in MeshOrders, near \in BOOLEAN :
    \E V \in [1..n -> FaceTriples], W \in [1..n -> WeightTriples] :
      LET r == sphere_to_samples_resample_map(V, W, near)
      IN  /\ op' = "sphere_to_samples_resample_map"
          /\ nearest' = near /\ order' = o
          /\ meshV' = V /\ meshW' = W
          /\ outcome' = r.outcome /\ ret' = r.ret
          /\ UNCHANGED <<kh, kw, res_lat, res_lon, spherical_coords, x, y,
                         source>>

CallEquirectangularToSphereResampleMap ==
  /\ op = "none"
  /\ \E shape \in ImageShapes, ico \in Icospheres, src \in Sources :
    LET r == equirectangular_to_sphere_resample_map(shape, ico, src)
    IN  /\ op' = "equirectangular_to_sphere_resample_map"
        /\ spherical_coords' = SourceCoords(ico, src)
        /\ source' = src
        /\ outcome' = r.outcome
        /\ ret' = r.ret
        /\ UNCHANGED <<kh, kw, res_lat, res_lon, x, y, nearest, order,
                       meshV, meshW>>

CallComputeNumVertices ==
  /\ op = "none"
  /\ \E n \in Orders :
    /\ op' = "compute_num_vertices"
    /\ order' = n
    /\ outcome' = "returned"
    /\ ret' = compute_num_vertices(n)
    /\ UNCHANGED <<kh, kw, res_lat, res_lon, spherical_coords, x, y, source,
                   nearest, meshV, meshW>>

CallComputeNumFaces ==
  /\ op = "none"
  /\ \E n \in Orders :
    /\ op' = "compute_num_faces"
    /\ order' = n
    /\ outcome' = "returned"
    /\ ret' = compute_num_faces(n)
    /\ UNCHANGED <<kh, kw, res_lat, res_lon, spherical_coords, x, y, source,
                   nearest, meshV, meshW>>

Next ==
  \/ CallGnomonicKernel
  \/ CallGnomonicKernelFromSphere
  \/ CallVertexToVertexKernelMap
  \/ CallSphereToImageResampleMap
  \/ CallSphereToCubeResampleMap
  \/ CallSphereToSamplesResampleMap
  \/ CallEquirectangularToSphereResampleMap
  \/ CallComputeNumVertices
  \/ CallComputeNumFaces

Spec == Init /\ [][Next]_vars

\* ------------------------------------------------------------ properties
IsKernelCall == op \in {"gnomonic_kernel", "gnomonic_kernel_from_sphere"}

IsSourceCall ==
  op \in {"gnomonic_kernel_from_sphere", "equirectangular_to_sphere_resample_map"}

IsMeshBuilder ==
  op \in {"vertex_to_vertex_kernel_map", "sphere_to_image_resample_map",
          "sphere_to_cube_resample_map", "sphere_to_samples_resample_map"}

Sum3(w) == w[1] + w[2] + w[3]

\* C1: for odd kh, kw and centers with longitude in (-PI, PI], the tap
\* returned at index (kh//2)*kw + kw//2 equals the center (lon, lat) exactly.
C1_CenterTapIsCenter ==
  (/\ IsKernelCall /\ outcome = "returned"
   /\ kh >= 1 /\ kw >= 1 /\ kh % 2 = 1 /\ kw % 2 = 1
   /\ \A s \in DOMAIN spherical_coords :
        0 - PI < spherical_coords[s][1] /\ spherical_coords[s][1] <= PI)
  => \A s \in DOMAIN spherical_coords :
       ret[s][CenterTap(kh, kw) + 1] = spherical_coords[s]

C3_InvalidSourceRaises ==
  (IsSourceCall /\ source \notin {"face", "vertex"})
  => (outcome = "InvalidArgument" /\ ret = <<>>)

\* C4: gnomonic_kernel with kh <= 0 or kw <= 0 fails with an explicit
\* invalid-argument error and returns no sampling map.
C4_NonPositiveKernelRejected ==
  (op = "gnomonic_kernel" /\ (kh <= 0 \/ kw <= 0))
  => (outcome = "InvalidArgument" /\ ret = <<>>)

\* C5: every mesh-relative builder returns, per element and per face vertex,
\* the pair (vertex index the mesh query returned, 0), in the same order and
\* shape, for nearest TRUE and FALSE alike.
C5_VertexPadding ==
  (IsMeshBuilder /\ outcome = "returned")
  => /\ DOMAIN ret.V = DOMAIN meshV
     /\ \A e \in DOMAIN meshV :
          /\ DOMAIN ret.V[e] = 1..3
          /\ \A c \in 1..3 : ret.V[e][c] = <<meshV[e][c], 0>>

C5_Witness ==
  /\ op = "sphere_to_samples_resample_map" /\ outcome = "returned"
  /\ nearest
  /\ Len(meshV) = 2
  /\ meshV[1] = <<0, 1, 2>> /\ meshV[2] = <<2, 1, 3>>
  /\ ret.V[1] = <<<<0, 0>>, <<1, 0>>, <<2, 0>>>>
  /\ ret.V[2] = <<<<2, 0>>, <<1, 0>>, <<3, 0>>>>

\* C6: with nearest, sphere_to_samples_resample_map returns per sample a
\* weight vector of 0s and 1s, with a 1 exactly where the mesh query's
\* weight equals the maximum of its three weights; its sum is at least 1
\* and exactly 1 when a single weight attains the maximum.
C6_NearestCollapse ==
  (op = "sphere_to_samples_resample_map" /\ outcome = "returned" /\ nearest)
  => /\ DOMAIN ret.W = DOMAIN meshW
     /\ \A e \in DOMAIN meshW :
          /\ \A c \in 1..3 :
               /\ ret.W[e][c] \in {0, WSum}
               /\ (ret.W[e][c] = WSum) <=> (meshW[e][c] = Max3(meshW[e]))
          /\ Sum3(ret.W[e]) >= WSum
          /\ (Cardinality({c \in 1..3 : meshW[e][c] = Max3(meshW[e])}) = 1)
               => Sum3(ret.W[e]) = WSum

\* a tie selects two taps
C6_Witness ==
  /\ op = "sphere_to_samples_resample_map" /\ outcome = "returned"
  /\ nearest
  /\ Len(meshW) >= 1
  /\ meshW[1][1] = meshW[1][2] /\ meshW[1][3] = 0
  /\ ret.W[1] = <<WSum, WSum, 0>>

\* C7: for kh, kw >= 1 the tap at index i*kw + j has offset
\* x = (j - kw//2)*res_lon (+ res_lon/2 when kw is even) and
\* y = (i - kh//2)*res_lat (+ res_lat/2 when kh is even); in an even
\* dimension no offset is 0 and the offsets are symmetric about 0.
C7_KernelOffsets ==
  (IsKernelCall /\ outcome = "returned" /\ kh >= 1 /\ kw >= 1)
  => /\ Len(x) = kh * kw /\ Len(y) = kh * kw
     /\ \A i \in 0..(kh - 1) : \A j \in 0..(kw - 1) :
          /\ x[i * kw + j + 1] =
               (j - kw \div 2) * res_lon
                 + (IF kw % 2 = 0 THEN res_lon \div 2 ELSE 0)
          /\ y[i * kw + j + 1] =
               (i - kh \div 2) * res_lat
                 + (IF kh % 2 = 0 THEN res_lat \div 2 ELSE 0)
     /\ (kw % 2 = 0) =>
          \A t \in DOMAIN x : x[t] # 0 /\ \E u \in DOMAIN x : x[u] = 0 - x[t]
     /\ (kh % 2 = 0) =>
          \A t \in DOMAIN y : y[t] # 0 /\ \E u \in DOMAIN y : y[u] = 0 - y[t]

\* kh = kw = 2 at resolution 0.2: the four taps sit at (+-0.1, +-0.1)
C7_Witness ==
  /\ op = "gnomonic_kernel" /\ outcome = "returned"
  /\ kh = 2 /\ kw = 2 /\ res_lat = 20 /\ res_lon = 20
  /\ x = <<0 - 10, 10, 0 - 10, 10>>
  /\ y = <<0 - 10, 0 - 10, 10, 10>>

\* C8: without nearest, every mesh-relative builder returns the mesh
\* query's weights per element unchanged in value and order, so they sum
\* to 1 whenever the mesh query's do.
C8_WeightsPassThrough ==
  (IsMeshBuilder /\ outcome = "returned" /\ ~nearest)
  => /\ DOMAIN ret.W = DOMAIN meshW
     /\ \A e \in DOMAIN meshW :
          ret.W[e] = meshW[e] /\ Sum3(ret.W[e]) = WSum

C8_Witness ==
  /\ op = "sphere_to_samples_resample_map" /\ outcome = "returned"
  /\ ~nearest
  /\ Len(meshW) = 2
  /\ meshW[1][1] = meshW[1][2] /\ meshW[1][3] = 0
  /\ ret.W[1] = meshW[1] /\ ret.W[2] = meshW[2]
  /\ Sum3(ret.W[1]) = WSum

\* C9: compute_num_faces(0) = 20 and each order quadruples it;
\* compute_num_vertices(0) = 12 and compute_num_vertices(n) =
\* compute_num_faces(n)/2 + 2 = 10*4^n + 2, so that
\* compute_num_vertices(n+1) = 4*compute_num_vertices(n) - 6.
C9_CountFormulas ==
  /\ (op = "compute_num_faces") =>
       /\ (order = 0 => ret = 20)
       /\ compute_num_faces(order + 1) = 4 * ret
  /\ (op = "compute_num_vertices") =>
       /\ (order = 0 => ret = 12)
       /\ 2 * (ret - 2) = compute_num_faces(order)
       /\ ret = 10 * Pow(4, order) + 2
       /\ compute_num_vertices(order + 1) = 4 * ret - 6

C9_Witness ==
  op = "compute_num_vertices" /\ order = 2 /\ ret = 162

\* C10: for kh, kw >= 1 every tap with rho # 0 keeps the latitude and the
\* longitude of the inverse gnomonic formula; the override touches only a
\* tap at offset (0, 0).
C10_OverrideOnlyAtRhoZero ==
  (IsKernelCall /\ outcome = "returned" /\ kh >= 1 /\ kw >= 1)
  => \A s \in DOMAIN ret : \A t \in DOMAIN ret[s] :
       Rho(x[t], y[t]) # 0 =>
         ret[s][t] =
           <<Wrap(FormulaLon(spherical_coords[s][1], spherical_coords[s][2],
                             x[t], y[t])),
             FormulaLat(spherical_coords[s][2], x[t], y[t])>>

====
